---- MODULE Spec2Model ----
(***************************************************************************)
(* Model of testcaseer's Recorder (src/src/testcaseer/recorder.py): the    *)
(* recording session, the step assembler (on_action) and the correlation   *)
(* buffers fed by the console/network handlers.                            *)
(*                                                                         *)
(* The recorder runs on one asyncio event loop.  Every action below is the *)
(* code that runs between two suspension points (await), so a coroutine    *)
(* with an await in its body is several actions joined by a task record    *)
(* holding its local variables.  The teardown of run() after the           *)
(* completion signal (closing the browser) is outside the model.           *)
(*                                                                         *)
(* The observer script injected into the page (src/src/testcaseer/         *)
(* events.py) is modelled by the actions of ObserverSpec; Spec takes the   *)
(* payloads it hands to on_action from Payloads.  InputSpec joins the      *)
(* observer's input handler to the recorder, InjectionSpec follows the     *)
(* installation of the listeners across navigations, AddressorSpec the     *)
(* selectors computed for the nodes of a document.  DescriptionSpec and    *)
(* BodySpec apply the recorder's two pure conversions,                     *)
(* _generate_short_description and the body capping of                     *)
(* _capture_response_body, to bounded sets of inputs.                      *)
(*                                                                         *)
(* Encoding of Python values: None of an int field is 0, None of a str     *)
(* field is "None", None of a path is <<>>; a dict is a function whose     *)
(* DOMAIN is the set of keys present.  In a JS payload "ABSENT" is a key   *)
(* that is missing and "NULL" a key whose value is null.                   *)
(***************************************************************************)
EXTENDS Integers, Sequences, FiniteSets, TLC

\* ---------------------------------------------------------------- bounds
\* Inputs delivered to the recorder: page events (actions, requests, console
\* messages, page errors) and accepted start/stop signals, in total.
MaxInputs == 4

\* Input events (keystrokes) the page dispatches to the in-page observer.
MaxKeys == 4

\* Invocations of getElementInfo on one document.
MaxLookups == 2
\* Short descriptions generated in one behaviour.
MaxDescriptions == 1
\* Response bodies captured in one behaviour.
MaxBodies == 2

URLS == {"https://api.x/data", "data:image/png"}
RESOURCE_TYPES == {"xhr", "image"}
MESSAGE_TYPES == {"warning", "table"}
EXPORTERS == <<"json", "markdown", "html">>
\* The editable fields of the page, named by the selector getCssSelector
\* gives them ('#' + id), and the characters typed.
FIELDS == {"#email", "#name"}
CHARS == {"a"}
\* The nodes of a document: the root element, the body and the elements
\* below it, in document order, and the attribute values they can have
\* ("" = attribute not set).
HTML == 0
BODY == 1
NODES == {2, 3}
TAGS == {"div", "span"}
IDS == {"", "x"}
TESTIDS == {"", "t"}
CLASSES == {"", "c"}

VARIABLES
    has_page,                \* self._browser_manager and self._browser_manager._page
    is_recording,            \* self.is_recording
    steps,                   \* self.steps
    start_time,              \* self.start_time (0 = None)
    end_time,                \* self.end_time (0 = None)
    console_logs,            \* self.console_logs
    network_requests,        \* self.network_requests
    page_errors,             \* self.page_errors
    pending_requests,        \* self._pending_requests: url -> NetworkRequest
    step_console_logs,       \* self._step_console_logs
    step_network_requests,   \* self._step_network_requests
    recording_complete,      \* self._recording_complete.is_set()
    actions_inflight,        \* on_action coroutines suspended in take_screenshot
    capturing,               \* _capture_response_body tasks suspended in response.body()
    stops,                   \* stop_recording coroutines suspended in update_panel_ui / sleep
    wire,                    \* requests of the page not yet finished or failed
    exports,                 \* what _export_testcase handed to the exporters, in order
    clock,                   \* last value returned by datetime.now()
    calls,                   \* on_action invocations so far (identity of the payload)
    next_req,                \* requests issued so far
    next_log,                \* console messages so far
    next_err,                \* page errors so far
    field_value,             \* el.value of each field of the page
    inputDebounceTimer,      \* EVENT_LISTENER_JS: the field whose timer is pending
    lastInputValue,          \* EVENT_LISTENER_JS: selector -> value
    callbacks,               \* timer callbacks suspended in await __testcaseer_on_action
    forwarded,               \* the infos handed to __testcaseer_on_action by the timers
    keys,                    \* DOM events dispatched so far
    panel_events,            \* those of them whose handler returned at its
                             \* isControlPanel test; for the properties only
    events_injected,         \* window.__testcaseer_events_injected
    listeners,               \* listener sets installed on the current document
    evaluations,             \* evaluations of EVENT_LISTENER_JS in the current
                             \* document, counted up to 2; for the properties only
    timer_set_at,            \* the recorder's clock when the pending timer was
                             \* set; kept for the properties only
    document,                \* the DOM of the page: element node -> its record
    lookups,                 \* what getElementInfo returned, per invocation
    described,               \* calls of _generate_short_description with their
                             \* results; for the properties only
    stored                   \* response bodies with the response_body stored
                             \* for them; for the properties only

\* The state of the page and of the observer script injected into it.
observer_vars == <<field_value, inputDebounceTimer, lastInputValue, callbacks,
                   forwarded, keys, panel_events, timer_set_at, document, lookups,
                   events_injected, listeners, evaluations, described, stored>>

\* The records of the pure functions' applications.
function_vars == <<described, stored>>

\* What a navigation replaces with the document.
injection_vars == <<events_injected, listeners, evaluations>>

recorder_vars == <<has_page, is_recording, steps, start_time, end_time, console_logs,
                   network_requests, page_errors, pending_requests, step_console_logs,
                   step_network_requests, recording_complete, actions_inflight,
                   capturing, stops, wire, exports, clock, calls, next_req, next_log,
                   next_err>>

vars == <<observer_vars, has_page, is_recording, steps, start_time, end_time, console_logs,
          network_requests, page_errors, pending_requests, step_console_logs,
          step_network_requests, recording_complete, actions_inflight,
          capturing, stops, wire, exports, clock, calls, next_req, next_log,
          next_err>>

\* ------------------------------------------------------------- payloads
\* What the in-page observer can hand to on_action (getElementInfo's record,
\* or anything else a page script passes to the exposed function).
Payloads ==
    { [eventType |-> "click", selector |-> "#submit", tagName |-> "button",
       boundingBox |-> "BOX", value |-> "NULL"],
      [eventType |-> "hover", selector |-> "#submit", tagName |-> "button",
       boundingBox |-> "BOX", value |-> "NULL"],
      [eventType |-> "click", selector |-> "NULL", tagName |-> "button",
       boundingBox |-> "BOX", value |-> "NULL"],
      [eventType |-> "click", selector |-> "ABSENT", tagName |-> "ABSENT",
       boundingBox |-> "ABSENT", value |-> "ABSENT"],
      [eventType |-> "input", selector |-> "#email", tagName |-> "input",
       boundingBox |-> "BOX", value |-> "NULL"],
      [eventType |-> "click", selector |-> "#third", tagName |-> "li",
       boundingBox |-> "BOX", value |-> "NUMBER"] }

\* dict.get(key, default): the default only replaces a missing key.
Get(v, default) == IF v = "ABSENT" THEN default ELSE v

\* action_map.get(event_type) of on_action; "None" when the type is unknown.
ActionMap(event_type) ==
    IF event_type \in {"click", "dblclick", "input", "select", "check", "uncheck", "keypress"}
    THEN event_type ELSE "None"

parse_element_info(data) ==
    [ selector |-> Get(data.selector, ""),
      tag_name |-> Get(data.tagName, ""),
      bounding_box |-> Get(data.boundingBox, "EMPTY") ]

\* ElementInfo(...) raises a validation error unless selector and tag_name are
\* str and bounding_box is a dict of floats ({} included).
ElementInfoValid(element_data) ==
    /\ element_data.selector # "NULL"
    /\ element_data.tag_name # "NULL"
    /\ element_data.bounding_box # "NULL"

\* _generate_short_description raises TypeError for an input action whose
\* value is null: data.get("value", "") is then None and len(value) fails.
\* on_action calls it outside any try block.
ShortDescriptionRaises(action_type, data) ==
    action_type = "input" /\ Get(data.value, "") = "NULL"

\* Step(...) of on_action raises a validation error when input_value, which
\* is data.get("value"), is neither a str nor None: el.value of an li, a
\* progress or a meter element is a number.
StepRaises(t) == t.input_value = "NUMBER"

\* ------------------------------------------------------------- helpers
\* Inputs delivered so far (each accepted start or stop reads the clock once);
\* the guards below stop at MaxInputs.
Inputs == calls + next_req + next_log + next_err + clock

Pop(d, k) == [x \in (DOMAIN d) \ {k} |-> d[x]]
Put(d, k, v) == [x \in (DOMAIN d) \cup {k} |-> IF x = k THEN v ELSE d[x]]
EmptyDict == [x \in {} |-> 0]

\* list.clear() of on_action, after the copy went into the step.
Drained_NoClear(buffer) == buffer

Drained(buffer) == <<>>

\* level_map.get(message.type, "log") of _on_console_message
LevelMap(type) ==
    CASE type = "log" -> "log"
      [] type = "info" -> "info"
      [] type = "warning" -> "warn"
      [] type = "error" -> "error"
      [] type = "debug" -> "debug"
      [] type = "trace" -> "trace"
      [] OTHER -> "log"

\* As Step, but without the console messages of the open window.
Step_NetworkOnly(t, shot) ==
    [ number |-> t.step_number,
      action |-> t.action,
      action_type |-> t.action_type,
      selector |-> t.selector,
      screenshot_path |-> shot,
      network_requests |-> step_network_requests,
      console_logs |-> <<>> ]

\* The Step built by on_action after the screenshot from the task's locals
\* and the open-window buffers.
Step(t, shot) ==
    [ number |-> t.step_number,
      action |-> t.action,
      action_type |-> t.action_type,
      selector |-> t.selector,
      screenshot_path |-> shot,
      network_requests |-> step_network_requests,
      console_logs |-> step_console_logs ]

\* The TestCase built by _export_testcase when self.end_time is et.
TestCase(et) ==
    [ created_at |-> IF start_time # 0 THEN start_time ELSE clock,
      steps |-> steps,
      console_logs |-> console_logs,
      network_requests |-> network_requests,
      page_errors |-> page_errors,
      total_duration |-> IF start_time # 0 /\ et # 0 THEN et - start_time ELSE 0,
      total_steps |-> Len(steps) ]

\* _export_testcase: nothing when there are no steps, else the exporters run
\* in order until one of them raises (failing = 0: none does).
\* period (the start_time when the stop was accepted) is kept for the properties.
ExportTestcase(stop_id, period, et, failing) ==
    IF steps = <<>> THEN exports
    ELSE Append(exports,
                [ stop |-> stop_id,
                  period |-> period,
                  testcase |-> TestCase(et),
                  invoked |-> IF failing = 0 THEN EXPORTERS ELSE SubSeq(EXPORTERS, 1, failing) ])

\* _export_testcase raises iff it reaches an exporter that raises.
ExportRaises(failing) == steps # <<>> /\ failing # 0

\* ---------------------------------------------------------------- init
Init ==
    /\ has_page \in BOOLEAN
    /\ is_recording = FALSE
    /\ steps = <<>>
    /\ start_time = 0
    /\ end_time = 0
    /\ console_logs = <<>>
    /\ network_requests = <<>>
    /\ page_errors = <<>>
    /\ pending_requests = EmptyDict
    /\ step_console_logs = <<>>
    /\ step_network_requests = <<>>
    /\ recording_complete = FALSE
    /\ actions_inflight = {}
    /\ capturing = {}
    /\ stops = {}
    /\ wire = {}
    /\ exports = <<>>
    /\ clock = 0
    /\ calls = 0
    /\ next_req = 0
    /\ next_log = 0
    /\ next_err = 0
    /\ field_value = [f \in FIELDS |-> <<>>]
    /\ inputDebounceTimer = "None"
    /\ lastInputValue = EmptyDict
    /\ callbacks = {}
    /\ forwarded = <<>>
    /\ keys = 0
    /\ panel_events = 0
    /\ timer_set_at = 0
    /\ events_injected = TRUE
    /\ listeners = 1
    /\ evaluations = 2
    /\ document = EmptyDict
    /\ lookups = <<>>
    /\ described = <<>>
    /\ stored = <<>>

\* ------------------------------------------------- console and page errors
\* As OnConsoleMessage, but without the early return when not recording.
OnConsoleMessage_NoGuard(type) ==
    /\ Inputs < MaxInputs
    /\ next_log' = next_log + 1
    /\ LET log_entry == [id |-> next_log + 1, level |-> LevelMap(type)] IN
       /\ console_logs' = Append(console_logs, log_entry)
       /\ step_console_logs' = Append(step_console_logs, log_entry)
    /\ UNCHANGED <<observer_vars, has_page, is_recording, steps, start_time, end_time,
                   network_requests, page_errors, pending_requests,
                   step_network_requests, recording_complete, actions_inflight,
                   capturing, stops, wire, exports, clock, calls, next_req, next_err>>

OnConsoleMessage(type) ==
    /\ Inputs < MaxInputs
    /\ next_log' = next_log + 1
    /\ IF ~is_recording
       THEN UNCHANGED <<console_logs, step_console_logs>>
       ELSE LET log_entry == [id |-> next_log + 1, level |-> LevelMap(type)] IN
            /\ console_logs' = Append(console_logs, log_entry)
            /\ step_console_logs' = Append(step_console_logs, log_entry)
    /\ UNCHANGED <<observer_vars, has_page, is_recording, steps, start_time, end_time,
                   network_requests, page_errors, pending_requests,
                   step_network_requests, recording_complete, actions_inflight,
                   capturing, stops, wire, exports, clock, calls, next_req, next_err>>

OnPageError ==
    /\ Inputs < MaxInputs
    /\ next_err' = next_err + 1
    /\ IF ~is_recording
       THEN UNCHANGED page_errors
       ELSE page_errors' = Append(page_errors, [id |-> next_err + 1])
    /\ UNCHANGED <<observer_vars, has_page, is_recording, steps, start_time, end_time, console_logs,
                   network_requests, pending_requests, step_console_logs,
                   step_network_requests, recording_complete, actions_inflight,
                   capturing, stops, wire, exports, clock, calls, next_req, next_log>>

\* ----------------------------------------------------------------- network
\* As OnRequest, but a URL that is already pending keeps its first entry.
OnRequest_KeepsFirst(url, rtype) ==
    /\ Inputs < MaxInputs
    /\ next_req' = next_req + 1
    /\ wire' = wire \cup {[id |-> next_req + 1, url |-> url, responded |-> FALSE]}
    /\ IF ~is_recording \/ url = "data:image/png" \/ url \in DOMAIN pending_requests
       THEN UNCHANGED pending_requests
       ELSE pending_requests' =
                Put(pending_requests, url,
                    [id |-> next_req + 1, url |-> url, resource_type |-> rtype,
                     status |-> 0, error |-> "None", response_body |-> "None"])
    /\ UNCHANGED <<observer_vars, has_page, is_recording, steps, start_time, end_time, console_logs,
                   network_requests, page_errors, step_console_logs,
                   step_network_requests, recording_complete, actions_inflight,
                   capturing, stops, exports, clock, calls, next_log, next_err>>

\* The page issues a request; Playwright emits "request".
OnRequest(url, rtype) ==
    /\ Inputs < MaxInputs
    /\ next_req' = next_req + 1
    /\ wire' = wire \cup {[id |-> next_req + 1, url |-> url, responded |-> FALSE]}
    /\ IF ~is_recording \/ url = "data:image/png"
       THEN UNCHANGED pending_requests
       ELSE pending_requests' =
                Put(pending_requests, url,
                    [id |-> next_req + 1, url |-> url, resource_type |-> rtype,
                     status |-> 0, error |-> "None", response_body |-> "None"])
    /\ UNCHANGED <<observer_vars, has_page, is_recording, steps, start_time, end_time, console_logs,
                   network_requests, page_errors, step_console_logs,
                   step_network_requests, recording_complete, actions_inflight,
                   capturing, stops, exports, clock, calls, next_log, next_err>>

\* As OnResponse, but a response with no pending entry is recorded as an
\* event of its own.
OnResponse_RecordsOrphan(r) ==
    /\ r \in wire
    /\ ~r.responded
    /\ wire' = (wire \ {r}) \cup {[r EXCEPT !.responded = TRUE]}
    /\ IF is_recording
       THEN LET net_request ==
                    IF r.url \in DOMAIN pending_requests
                    THEN [pending_requests[r.url] EXCEPT !.status = 200]
                    ELSE [id |-> r.id, url |-> r.url, resource_type |-> "other",
                          status |-> 200, error |-> "None", response_body |-> "None"]
            IN /\ pending_requests' = Pop(pending_requests, r.url)
               /\ IF net_request.resource_type \in {"xhr", "fetch"}
                  THEN /\ capturing' = capturing \cup {net_request}
                       /\ UNCHANGED <<network_requests, step_network_requests>>
                  ELSE /\ network_requests' = Append(network_requests, net_request)
                       /\ step_network_requests' = Append(step_network_requests, net_request)
                       /\ UNCHANGED capturing
       ELSE UNCHANGED <<pending_requests, capturing, network_requests, step_network_requests>>
    /\ UNCHANGED <<observer_vars, has_page, is_recording, steps, start_time, end_time, console_logs,
                   page_errors, step_console_logs, recording_complete,
                   actions_inflight, stops, exports, clock, calls, next_req,
                   next_log, next_err>>

\* As OnResponse, but the matched entry stays in the pending map.
OnResponse_NoPop(r) ==
    /\ r \in wire
    /\ ~r.responded
    /\ wire' = (wire \ {r}) \cup {[r EXCEPT !.responded = TRUE]}
    /\ IF is_recording /\ r.url \in DOMAIN pending_requests
       THEN LET net_request == [pending_requests[r.url] EXCEPT !.status = 200] IN
            /\ pending_requests' = Put(pending_requests, r.url, net_request)
            /\ IF net_request.resource_type \in {"xhr", "fetch"}
               THEN /\ capturing' = capturing \cup {net_request}
                    /\ UNCHANGED <<network_requests, step_network_requests>>
               ELSE /\ network_requests' = Append(network_requests, net_request)
                    /\ step_network_requests' = Append(step_network_requests, net_request)
                    /\ UNCHANGED capturing
       ELSE UNCHANGED <<pending_requests, capturing, network_requests, step_network_requests>>
    /\ UNCHANGED <<observer_vars, has_page, is_recording, steps, start_time, end_time, console_logs,
                   page_errors, step_console_logs, recording_complete,
                   actions_inflight, stops, exports, clock, calls, next_req,
                   next_log, next_err>>

\* As OnResponse, but an xhr or fetch event is appended at once, without its
\* body.
OnResponse_NoBodyWait(r) ==
    /\ r \in wire
    /\ ~r.responded
    /\ wire' = (wire \ {r}) \cup {[r EXCEPT !.responded = TRUE]}
    /\ IF is_recording /\ r.url \in DOMAIN pending_requests
       THEN LET net_request == [pending_requests[r.url] EXCEPT !.status = 200] IN
            /\ pending_requests' = Pop(pending_requests, r.url)
            /\ network_requests' = Append(network_requests, net_request)
            /\ step_network_requests' = Append(step_network_requests, net_request)
            /\ UNCHANGED capturing
       ELSE UNCHANGED <<pending_requests, capturing, network_requests, step_network_requests>>
    /\ UNCHANGED <<observer_vars, has_page, is_recording, steps, start_time, end_time, console_logs,
                   page_errors, step_console_logs, recording_complete,
                   actions_inflight, stops, exports, clock, calls, next_req,
                   next_log, next_err>>

\* The response of request r arrives; Playwright emits "response".  The body
\* is still to be downloaded, so the request can yet finish or fail.
OnResponse(r) ==
    /\ r \in wire
    /\ ~r.responded
    /\ wire' = (wire \ {r}) \cup {[r EXCEPT !.responded = TRUE]}
    /\ IF is_recording /\ r.url \in DOMAIN pending_requests
       THEN LET net_request == [pending_requests[r.url] EXCEPT !.status = 200] IN
            /\ pending_requests' = Pop(pending_requests, r.url)
            /\ IF net_request.resource_type \in {"xhr", "fetch"}
               THEN /\ capturing' = capturing \cup {net_request}
                    /\ UNCHANGED <<network_requests, step_network_requests>>
               ELSE /\ network_requests' = Append(network_requests, net_request)
                    /\ step_network_requests' = Append(step_network_requests, net_request)
                    /\ UNCHANGED capturing
       ELSE UNCHANGED <<pending_requests, capturing, network_requests, step_network_requests>>
    /\ UNCHANGED <<observer_vars, has_page, is_recording, steps, start_time, end_time, console_logs,
                   page_errors, step_console_logs, recording_complete,
                   actions_inflight, stops, exports, clock, calls, next_req,
                   next_log, next_err>>

\* As CaptureResponseBody, but appending only while recording.
CaptureResponseBody_OnlyWhileRecording(net_request, outcome) ==
    /\ net_request \in capturing
    /\ capturing' = capturing \ {net_request}
    /\ LET done == [net_request EXCEPT !.response_body = outcome] IN
       IF is_recording
       THEN /\ network_requests' = Append(network_requests, done)
            /\ step_network_requests' = Append(step_network_requests, done)
       ELSE UNCHANGED <<network_requests, step_network_requests>>
    /\ UNCHANGED <<observer_vars, has_page, is_recording, steps, start_time, end_time, console_logs,
                   page_errors, pending_requests, step_console_logs,
                   recording_complete, actions_inflight, stops, wire, exports,
                   clock, calls, next_req, next_log, next_err>>

\* As CaptureResponseBody, but attributing the event to the last finalized
\* step instead of the open window.
CaptureResponseBody_IntoLastStep(net_request, outcome) ==
    /\ net_request \in capturing
    /\ capturing' = capturing \ {net_request}
    /\ LET done == [net_request EXCEPT !.response_body = outcome] IN
       /\ network_requests' = Append(network_requests, done)
       /\ IF steps = <<>>
          THEN /\ step_network_requests' = Append(step_network_requests, done)
               /\ UNCHANGED steps
          ELSE /\ steps' = [steps EXCEPT ![Len(steps)].network_requests = Append(@, done)]
               /\ UNCHANGED step_network_requests
    /\ UNCHANGED <<observer_vars, has_page, is_recording, start_time, end_time, console_logs,
                   page_errors, pending_requests, step_console_logs,
                   recording_complete, actions_inflight, stops, wire, exports,
                   clock, calls, next_req, next_log, next_err>>

\* response.body() settles (body) or raises (error); the finally block runs.
CaptureResponseBody(net_request, outcome) ==
    /\ net_request \in capturing
    /\ capturing' = capturing \ {net_request}
    /\ LET done == [net_request EXCEPT !.response_body = outcome] IN
       /\ network_requests' = Append(network_requests, done)
       /\ step_network_requests' = Append(step_network_requests, done)
    /\ UNCHANGED <<observer_vars, has_page, is_recording, steps, start_time, end_time, console_logs,
                   page_errors, pending_requests, step_console_logs,
                   recording_complete, actions_inflight, stops, wire, exports,
                   clock, calls, next_req, next_log, next_err>>

\* Request r finishes; Playwright emits "requestfinished", for which run()
\* registers no handler.
OnRequestFinished(r) ==
    /\ r \in wire
    /\ r.responded
    /\ wire' = wire \ {r}
    /\ UNCHANGED <<observer_vars, has_page, is_recording, steps, start_time, end_time, console_logs,
                   network_requests, page_errors, pending_requests,
                   step_console_logs, step_network_requests, recording_complete,
                   actions_inflight, capturing, stops, exports, clock, calls,
                   next_req, next_log, next_err>>

\* Request r fails, before or after its response; Playwright emits
\* "requestfailed".
OnRequestFailed(r) ==
    /\ r \in wire
    /\ wire' = wire \ {r}
    /\ IF is_recording /\ r.url \in DOMAIN pending_requests
       THEN LET net_request == [pending_requests[r.url] EXCEPT !.error = "Request failed"] IN
            /\ pending_requests' = Pop(pending_requests, r.url)
            /\ network_requests' = Append(network_requests, net_request)
            /\ step_network_requests' = Append(step_network_requests, net_request)
       ELSE UNCHANGED <<pending_requests, network_requests, step_network_requests>>
    /\ UNCHANGED <<observer_vars, has_page, is_recording, steps, start_time, end_time, console_logs,
                   page_errors, step_console_logs, recording_complete,
                   actions_inflight, capturing, stops, exports, clock, calls,
                   next_req, next_log, next_err>>

\* ---------------------------------------------------------------- navigation
\* The IIFE of EVENT_LISTENER_JS: the number of listener sets on the document
\* after an evaluation, given the sentinel and the number before it.
InstallListeners_NoSentinel(injected, n) == n + 1

InstallListeners(injected, n) == IF injected THEN n ELSE n + 1

\* _on_page_load: the page fired "load"; the panel and observer scripts are
\* evaluated again (ok) or an evaluate raises, which is swallowed.  Nothing of
\* the recorder is written either way.
OnPageLoad(ok) ==
    /\ IF has_page /\ ok
       THEN /\ events_injected' = TRUE
            /\ listeners' = InstallListeners(events_injected, listeners)
            /\ evaluations' = IF evaluations < 2 THEN evaluations + 1 ELSE 2
       ELSE UNCHANGED injection_vars
    /\ UNCHANGED <<field_value, inputDebounceTimer, lastInputValue, callbacks,
                   forwarded, keys, panel_events, timer_set_at, document, lookups, function_vars, recorder_vars>>

\* ------------------------------------------------------- recording control
\* As StartRecording, but without the early return when already recording.
StartRecording_NoGuard ==
    /\ Inputs < MaxInputs
    /\ is_recording' = TRUE
    /\ start_time' = clock + 1
    /\ clock' = clock + 1
    /\ steps' = <<>>
    /\ console_logs' = <<>>
    /\ network_requests' = <<>>
    /\ page_errors' = <<>>
    /\ UNCHANGED <<observer_vars, has_page, end_time, pending_requests, step_console_logs,
                   step_network_requests, recording_complete, actions_inflight,
                   capturing, stops, wire, exports, calls, next_req, next_log,
                   next_err>>

StartRecording ==
    IF is_recording
    THEN UNCHANGED vars
    ELSE /\ Inputs < MaxInputs
         /\ is_recording' = TRUE
         /\ start_time' = clock + 1
         /\ clock' = clock + 1
         /\ steps' = <<>>
         /\ console_logs' = <<>>
         /\ network_requests' = <<>>
         /\ page_errors' = <<>>
         /\ UNCHANGED <<observer_vars, has_page, end_time, pending_requests, step_console_logs,
                        step_network_requests, recording_complete, actions_inflight,
                        capturing, stops, wire, exports, calls, next_req, next_log,
                        next_err>>

\* As StopRecording, but without the early return when not recording.
StopRecording_NoGuard(failing) ==
    /\ Inputs < MaxInputs
    /\ is_recording' = FALSE
    /\ end_time' = clock + 1
    /\ clock' = clock + 1
    /\ IF has_page
       THEN /\ stops' = stops \cup {[id |-> clock + 1, pc |-> "saving",
                                    period |-> start_time, steps_at_stop |-> steps]}
            /\ UNCHANGED <<exports, recording_complete>>
       ELSE /\ exports' = ExportTestcase(clock + 1, start_time, clock + 1, failing)
            /\ recording_complete' = (recording_complete \/ ~ExportRaises(failing))
            /\ UNCHANGED stops
    /\ UNCHANGED <<observer_vars, has_page, steps, start_time, console_logs, network_requests,
                   page_errors, pending_requests, step_console_logs,
                   step_network_requests, actions_inflight, capturing, wire,
                   calls, next_req, next_log, next_err>>

\* stop_recording up to its first suspension point.  Without a page there is
\* none and the whole coroutine runs here.  The task record keeps, for the
\* properties only, the period (start_time) and the steps at acceptance.
StopRecording(failing) ==
    IF ~is_recording
    THEN /\ recording_complete' = TRUE
         /\ UNCHANGED <<observer_vars, has_page, is_recording, steps, start_time, end_time,
                        console_logs, network_requests, page_errors,
                        pending_requests, step_console_logs, step_network_requests,
                        actions_inflight, capturing, stops, wire, exports, clock,
                        calls, next_req, next_log, next_err>>
    ELSE /\ Inputs < MaxInputs
         /\ is_recording' = FALSE
         /\ end_time' = clock + 1
         /\ clock' = clock + 1
         /\ IF has_page
            THEN /\ stops' = stops \cup {[id |-> clock + 1, pc |-> "saving",
                                         period |-> start_time, steps_at_stop |-> steps]}
                 /\ UNCHANGED <<exports, recording_complete>>
            ELSE /\ exports' = ExportTestcase(clock + 1, start_time, clock + 1, failing)
                 /\ recording_complete' = (recording_complete \/ ~ExportRaises(failing))
                 /\ UNCHANGED stops
         /\ UNCHANGED <<observer_vars, has_page, steps, start_time, console_logs, network_requests,
                        page_errors, pending_requests, step_console_logs,
                        step_network_requests, actions_inflight, capturing, wire,
                        calls, next_req, next_log, next_err>>

\* stop_recording resumes after update_panel_ui("Saving..."): _export_testcase
\* runs without suspending; an exporter's exception ends the coroutine.
StopExport(s, failing) ==
    /\ s \in stops
    /\ s.pc = "saving"
    /\ exports' = ExportTestcase(s.id, s.period, end_time, failing)
    /\ stops' = IF ExportRaises(failing)
                THEN stops \ {s}
                ELSE (stops \ {s}) \cup {[s EXCEPT !.pc = "saved"]}
    /\ UNCHANGED <<observer_vars, has_page, is_recording, steps, start_time, end_time, console_logs,
                   network_requests, page_errors, pending_requests,
                   step_console_logs, step_network_requests, recording_complete,
                   actions_inflight, capturing, wire, clock, calls, next_req,
                   next_log, next_err>>

\* stop_recording resumes after update_panel_ui("Saved!") and sleep(2).
StopComplete(s) ==
    /\ s \in stops
    /\ s.pc = "saved"
    /\ stops' = stops \ {s}
    /\ recording_complete' = TRUE
    /\ UNCHANGED <<observer_vars, has_page, is_recording, steps, start_time, end_time, console_logs,
                   network_requests, page_errors, pending_requests,
                   step_console_logs, step_network_requests, actions_inflight,
                   capturing, wire, exports, clock, calls, next_req, next_log,
                   next_err>>

\* ----------------------------------------------------------- step assembler
\* on_action up to take_screenshot.  Without a page there is no suspension
\* point before the append and the step is built here, without a screenshot.
\* accepted_at (the period of acceptance) is kept for the properties only.
on_action(data) ==
    /\ Inputs < MaxInputs
    /\ calls' = calls + 1
    /\ LET action_type == ActionMap(Get(data.eventType, ""))
           element_data == parse_element_info(data)
           t == [ action |-> calls + 1,
                  step_number |-> Len(steps) + 1,
                  action_type |-> action_type,
                  selector |-> element_data.selector,
                  tag_name |-> element_data.tag_name,
                  input_value |-> Get(data.value, "NULL"),
                  accepted_at |-> start_time ]
       IN IF \/ ~is_recording
             \/ action_type = "None"
             \/ ~ElementInfoValid(element_data)
             \/ ShortDescriptionRaises(action_type, data)
          THEN UNCHANGED <<steps, step_console_logs, step_network_requests, actions_inflight>>
          ELSE IF has_page
               THEN /\ actions_inflight' = actions_inflight \cup {t}
                    /\ UNCHANGED <<steps, step_console_logs, step_network_requests>>
               ELSE /\ steps' = IF StepRaises(t) THEN steps
                                     ELSE Append(steps, Step(t, <<>>))
                    /\ step_console_logs' = Drained(step_console_logs)
                    /\ step_network_requests' = Drained(step_network_requests)
                    /\ UNCHANGED actions_inflight
    /\ UNCHANGED <<has_page, is_recording, start_time, end_time, console_logs,
                   network_requests, page_errors, pending_requests,
                   recording_complete, capturing, stops, wire, exports, clock,
                   next_req, next_log, next_err>>

\* on_action called from the page for an interaction the observer forwards.
OnAction(data) ==
    /\ on_action(data)
    /\ UNCHANGED observer_vars

\* generate_screenshot_filename's inputs, which determine the file name.
ScreenshotPath(t) == <<t.step_number, t.action_type, t.tag_name>>

\* As OnActionResume, but a screenshot failure ends the recording.
OnActionResume_FailureStops(t, ok) ==
    /\ t \in actions_inflight
    /\ actions_inflight' = actions_inflight \ {t}
    /\ steps' = IF StepRaises(t) THEN steps
                 ELSE Append(steps, Step(t, IF ok THEN ScreenshotPath(t) ELSE <<>>))
    /\ step_console_logs' = Drained(step_console_logs)
    /\ step_network_requests' = Drained(step_network_requests)
    /\ is_recording' = (is_recording /\ ok)
    /\ UNCHANGED <<observer_vars, has_page, start_time, end_time, console_logs,
                   network_requests, page_errors, pending_requests,
                   recording_complete, capturing, stops, wire, exports, clock,
                   calls, next_req, next_log, next_err>>

\* on_action resumes after take_screenshot returned (ok) or raised: the
\* buffers are copied and cleared, then the Step is built, which can raise,
\* and appended.
OnActionResume(t, ok) ==
    /\ t \in actions_inflight
    /\ actions_inflight' = actions_inflight \ {t}
    /\ steps' = IF StepRaises(t) THEN steps
                 ELSE Append(steps, Step(t, IF ok THEN ScreenshotPath(t) ELSE <<>>))
    /\ step_console_logs' = Drained(step_console_logs)
    /\ step_network_requests' = Drained(step_network_requests)
    /\ UNCHANGED <<observer_vars, has_page, is_recording, start_time, end_time, console_logs,
                   network_requests, page_errors, pending_requests,
                   recording_complete, capturing, stops, wire, exports, clock,
                   calls, next_req, next_log, next_err>>

\* ------------------------------------------------------- in-page observer
\* The input handler and its debounce timer (events.py, EVENT_LISTENER_JS).
\* The script runs in the page; its link with the recorder is the call of
\* __testcaseer_on_action, which it awaits.  A timer that has fired is written
\* "None" like a timer never set: clearTimeout of an expired timer does nothing.

\* Elements are named by their selectors; the control panel is a div appended
\* to the body that holds the Start and Stop buttons.
PANEL == "#__testcaseer_panel__"
TARGETS == {"#submit", "#agree", "#__tc_stop_btn__"}
EVENT_KINDS == {"click", "dblclick", "change", "keydown"}
KEYS == {"Enter", "a"}

ParentOf(el) == IF el = "#__tc_stop_btn__" THEN PANEL ELSE "body"

\* el.closest(selector): el or its nearest ancestor that matches, else "null".
RECURSIVE closest(_, _)
closest(el, selector) ==
    IF el = selector THEN el
    ELSE IF el = "body" THEN "null"
    ELSE closest(ParentOf(el), selector)

\* As isControlPanel, but no element counts as part of the panel.
isControlPanel_Never(el) == FALSE

isControlPanel(el) == closest(el, PANEL) # "null"

\* The user types character c into field el: the browser updates el.value and
\* dispatches 'input'; the handler returns for a field of the control panel,
\* else it cancels the pending timer, whatever field it was set for, stores
\* the value under the field's selector and sets a timer.
OnInput(el, c) ==
    /\ keys < MaxKeys
    /\ keys' = keys + 1
    /\ field_value' = [field_value EXCEPT ![el] = Append(@, c)]
    /\ IF isControlPanel(el)
       THEN /\ panel_events' = panel_events + 1
            /\ UNCHANGED <<lastInputValue, inputDebounceTimer, timer_set_at>>
       ELSE /\ lastInputValue' = Put(lastInputValue, el, field_value'[el])
            /\ inputDebounceTimer' = el
            /\ timer_set_at' = clock
            /\ UNCHANGED panel_events
    /\ UNCHANGED <<callbacks, forwarded, document, lookups, injection_vars,
                   function_vars, recorder_vars>>

\* lastInputValue[selector] of the timer callback.  A value is the sequence of
\* the characters typed; a missing key reads undefined, written <<"undefined">>.
ReadLastInputValue(selector) ==
    IF selector \in DOMAIN lastInputValue THEN lastInputValue[selector] ELSE <<"undefined">>

\* 500 ms passed without an input event: the timer callback runs up to its
\* await of __testcaseer_on_action(info).
TimerFires ==
    /\ inputDebounceTimer # "None"
    /\ LET info == [ selector |-> inputDebounceTimer,
                     eventType |-> "input",
                     value |-> ReadLastInputValue(inputDebounceTimer) ]
       IN /\ forwarded' = Append(forwarded, info)
          /\ callbacks' = callbacks \cup {[id |-> Len(forwarded) + 1,
                                           selector |-> inputDebounceTimer]}
    /\ inputDebounceTimer' = "None"
    /\ timer_set_at' = 0
    /\ UNCHANGED <<field_value, lastInputValue, keys, panel_events, document, lookups, injection_vars,
                   function_vars, recorder_vars>>

\* __testcaseer_on_action settles (resolved, or rejected and caught): the
\* callback goes on to delete lastInputValue[selector].
TimerCallbackResumes(cb) ==
    /\ cb \in callbacks
    /\ callbacks' = callbacks \ {cb}
    /\ lastInputValue' = Pop(lastInputValue, cb.selector)
    /\ UNCHANGED <<field_value, inputDebounceTimer, forwarded, keys, panel_events, timer_set_at,
                   document, lookups, injection_vars,
                   function_vars, recorder_vars>>

ObserverNext ==
    \/ \E el \in FIELDS, c \in CHARS : OnInput(el, c)
    \/ TimerFires
    \/ \E cb \in callbacks : TimerCallbackResumes(cb)

ObserverSpec == Init /\ [][ObserverNext]_vars

\* The click, dblclick, change and keydown handlers.
\* info.eventType as the handler of the event kind sets it, "None" when the
\* handler returns without forwarding: change is forwarded for a checkbox
\* (#agree), keydown for the special keys.
EventType(kind, target, key, checked) ==
    CASE kind = "click" -> "click"
      [] kind = "dblclick" -> "dblclick"
      [] kind = "change" ->
             IF target = "#agree" THEN (IF checked THEN "check" ELSE "uncheck")
             ELSE "None"
      [] kind = "keydown" -> IF key = "Enter" THEN "keypress" ELSE "None"

\* The browser dispatches an event of the kind on the target: every installed
\* listener set runs its handler, which returns for a target in the control
\* panel and else calls __testcaseer_on_action(info).
OnDomEvent(kind, target, key, checked) ==
    /\ keys < MaxKeys
    /\ keys' = keys + 1
    /\ LET info == [ selector |-> target,
                     eventType |-> EventType(kind, target, key, checked),
                     value |-> <<>> ]
           calls_made == IF isControlPanel(target) \/ info.eventType = "None"
                         THEN 0 ELSE listeners
       IN forwarded' = forwarded \o [i \in 1..calls_made |-> info]
    /\ panel_events' = IF isControlPanel(target) THEN panel_events + 1 ELSE panel_events
    /\ UNCHANGED <<field_value, inputDebounceTimer, lastInputValue, callbacks,
                   timer_set_at, document, lookups, injection_vars, function_vars, recorder_vars>>

\* The observer's input handler together with the recorder it calls.
\* The timer callback of TimerFires, with its call of
\* __testcaseer_on_action(info) carried out: Recorder.on_action receives the
\* input event in the same step (a value read as undefined arrives as None).
TimerForwards ==
    /\ inputDebounceTimer # "None"
    /\ LET value == ReadLastInputValue(inputDebounceTimer)
           info == [ selector |-> inputDebounceTimer,
                     eventType |-> "input",
                     value |-> value ]
       IN /\ forwarded' = Append(forwarded, info)
          /\ callbacks' = callbacks \cup {[id |-> Len(forwarded) + 1,
                                           selector |-> inputDebounceTimer]}
          /\ on_action([ eventType |-> "input",
                         selector |-> inputDebounceTimer,
                         tagName |-> "input",
                         boundingBox |-> "BOX",
                         value |-> IF value = <<"undefined">> THEN "NULL" ELSE "TEXT" ])
    /\ inputDebounceTimer' = "None"
    /\ timer_set_at' = 0
    /\ UNCHANGED <<field_value, lastInputValue, keys, panel_events, document, lookups,
                   injection_vars, function_vars>>

\* TimerCallbackResumes once the on_action it awaits has returned.
InputCallbackResumes(cb) ==
    /\ \A t \in actions_inflight : t.action # cb.id
    /\ TimerCallbackResumes(cb)

InputNext ==
    \/ \E el \in FIELDS, c \in CHARS : OnInput(el, c)
    \/ TimerForwards
    \/ \E cb \in callbacks : InputCallbackResumes(cb)
    \/ \E t \in actions_inflight, ok \in BOOLEAN : OnActionResume(t, ok)
    \/ StartRecording
    \/ \E failing \in 0..Len(EXPORTERS) : StopRecording(failing)
    \/ \E s \in stops, failing \in 0..Len(EXPORTERS) : StopExport(s, failing)
    \/ \E s \in stops : StopComplete(s)

InputSpec == Init /\ [][InputNext]_vars

\* ------------------------------------------------------- element addressor
\* A document is a function from its element nodes below the body to their
\* records; the root element and the body are always there.  Children are
\* ordered by node number.
Documents ==
    {d \in [NODES -> [parent : {BODY} \cup NODES, tagName : TAGS, id : IDS,
                      testid : TESTIDS, className : CLASSES]] :
        \A n \in NODES : d[n].parent < n}

AllNodes(doc) == {HTML, BODY} \cup DOMAIN doc

parentElement(doc, el) ==
    IF el = HTML THEN -1 ELSE IF el = BODY THEN HTML ELSE doc[el].parent

tagName(doc, el) ==
    IF el = HTML THEN "html" ELSE IF el = BODY THEN "body" ELSE doc[el].tagName

\* parent.children filtered to the tag of el, and the 1-based place of el
\* among them.
SameTagSiblings(doc, el) ==
    {m \in AllNodes(doc) : /\ parentElement(doc, m) = parentElement(doc, el)
                           /\ tagName(doc, m) = tagName(doc, el)}

IndexOf(doc, el) ==
    Cardinality({m \in SameTagSiblings(doc, el) : m <= el})

\* document.querySelectorAll(selector).  A selector is a sequence of
\* parts: the first stands alone, each later one is a "> tag" or
\* "> tag:nth-of-type(k)" child step (nth = 0: no nth-of-type).
RECURSIVE querySelectorAll(_, _)
querySelectorAll(doc, selector) ==
    LET part == selector[Len(selector)]
    IN  IF Len(selector) = 1
        THEN CASE part.kind = "tag" ->
                      {m \in AllNodes(doc) : tagName(doc, m) = part.tagName}
               [] part.kind = "id" ->
                      {m \in DOMAIN doc : doc[m].id = part.value}
               [] part.kind = "testid" ->
                      {m \in DOMAIN doc : doc[m].testid = part.value}
               [] part.kind = "class" ->
                      {m \in DOMAIN doc : /\ doc[m].tagName = part.tagName
                                           /\ doc[m].className = part.value}
        ELSE {m \in AllNodes(doc) :
                /\ tagName(doc, m) = part.tagName
                /\ part.nth # 0 => IndexOf(doc, m) = part.nth
                /\ parentElement(doc, m) \in
                       querySelectorAll(doc, SubSeq(selector, 1, Len(selector) - 1))}

\* getCssSelector of the observer script.
RECURSIVE getCssSelector(_, _)
getCssSelector(doc, el) ==
    IF el \in {BODY, HTML}
    THEN <<[kind |-> "tag", tagName |-> "body"]>>
    ELSE IF doc[el].id # ""
    THEN <<[kind |-> "id", value |-> doc[el].id]>>
    ELSE IF doc[el].testid # ""
    THEN <<[kind |-> "testid", value |-> doc[el].testid]>>
    ELSE IF /\ doc[el].className # ""
            /\ Cardinality(querySelectorAll(doc,
                   <<[kind |-> "class", tagName |-> doc[el].tagName,
                      value |-> doc[el].className]>>)) = 1
    THEN <<[kind |-> "class", tagName |-> doc[el].tagName,
            value |-> doc[el].className]>>
    ELSE Append(getCssSelector(doc, parentElement(doc, el)),
                [kind |-> "child", tagName |-> doc[el].tagName,
                 nth |-> IF Cardinality(SameTagSiblings(doc, el)) = 1
                         THEN 0 ELSE IndexOf(doc, el)])

\* getXPath of the observer script: a sequence of path parts.
RECURSIVE getXPath(_, _)
getXPath(doc, el) ==
    IF el \in DOMAIN doc /\ doc[el].id # ""
    THEN <<[kind |-> "id", value |-> doc[el].id]>>
    ELSE IF el = BODY
    THEN <<[kind |-> "path", value |-> "/html/body"]>>
    ELSE LET path == [kind |-> "step", tagName |-> tagName(doc, el),
                      nth |-> IF Cardinality(SameTagSiblings(doc, el)) > 1
                              THEN IndexOf(doc, el) ELSE 0]
         IN  IF el # HTML
             THEN Append(getXPath(doc, parentElement(doc, el)), path)
             ELSE <<path>>

\* The page navigates to another document: a new window object, on which no
\* listener is installed, and the init script registered by
\* setup_event_listeners runs in it before any script of the page.
Navigate(doc) ==
    /\ document' = doc
    /\ lookups' = <<>>
    /\ events_injected' = TRUE
    /\ listeners' = InstallListeners(FALSE, 0)
    /\ evaluations' = 1
    /\ UNCHANGED <<field_value, inputDebounceTimer, lastInputValue, callbacks,
                   forwarded, keys, panel_events, timer_set_at, function_vars, recorder_vars>>

\* As getCssSelector, but trying the test identifier before the id.
RECURSIVE getCssSelector_TestIdFirst(_, _)
getCssSelector_TestIdFirst(doc, el) ==
    IF el \in {BODY, HTML}
    THEN <<[kind |-> "tag", tagName |-> "body"]>>
    ELSE IF doc[el].testid # ""
    THEN <<[kind |-> "testid", value |-> doc[el].testid]>>
    ELSE IF doc[el].id # ""
    THEN <<[kind |-> "id", value |-> doc[el].id]>>
    ELSE IF /\ doc[el].className # ""
            /\ Cardinality(querySelectorAll(doc,
                   <<[kind |-> "class", tagName |-> doc[el].tagName,
                      value |-> doc[el].className]>>)) = 1
    THEN <<[kind |-> "class", tagName |-> doc[el].tagName,
            value |-> doc[el].className]>>
    ELSE Append(getCssSelector_TestIdFirst(doc, parentElement(doc, el)),
                [kind |-> "child", tagName |-> doc[el].tagName,
                 nth |-> IF Cardinality(SameTagSiblings(doc, el)) = 1
                         THEN 0 ELSE IndexOf(doc, el)])

\* As getElementInfo, with the selector of getCssSelector_TestIdFirst.
getElementInfo_TestIdFirst(el) ==
    /\ Len(lookups) < MaxLookups
    /\ el \in AllNodes(document)
    /\ lookups' = Append(lookups, [node |-> el,
                                   selector |-> getCssSelector_TestIdFirst(document, el),
                                   xpath |-> getXPath(document, el)])
    /\ UNCHANGED <<field_value, inputDebounceTimer, lastInputValue, callbacks,
                   forwarded, keys, panel_events, timer_set_at, document, injection_vars,
                   function_vars, recorder_vars>>

\* Variant: the node is addressed by a mark numbered by the invocation.
getElementInfo_FreshMark(el) ==
    /\ Len(lookups) < MaxLookups
    /\ el \in AllNodes(document)
    /\ lookups' = Append(lookups, [node |-> el,
                                   selector |-> <<[kind |-> "mark",
                                                   value |-> Len(lookups)]>>,
                                   xpath |-> getXPath(document, el)])
    /\ UNCHANGED <<field_value, inputDebounceTimer, lastInputValue, callbacks,
                   forwarded, keys, panel_events, timer_set_at, document, injection_vars,
                   function_vars, recorder_vars>>

\* getElementInfo(el) on a node of the current document.
getElementInfo(el) ==
    /\ Len(lookups) < MaxLookups
    /\ el \in AllNodes(document)
    /\ lookups' = Append(lookups, [node |-> el,
                                   selector |-> getCssSelector(document, el),
                                   xpath |-> getXPath(document, el)])
    /\ UNCHANGED <<field_value, inputDebounceTimer, lastInputValue, callbacks,
                   forwarded, keys, panel_events, timer_set_at, document, injection_vars,
                   function_vars, recorder_vars>>

\* A navigation forgets the lookups, so one made after a lookup leads to a
\* state that a navigation from the start leads to as well; only those from
\* a state without lookups are taken.
AddressorNext ==
    \/ \E doc \in Documents : lookups = <<>> /\ Navigate(doc)
    \/ \E el \in {HTML, BODY} \cup NODES : getElementInfo(el)
    \/ StartRecording

AddressorSpec == Init /\ [][AddressorNext]_vars

\* The observer across navigations and page loads.
\* The documents navigated to: two divs in the body, with or without ids.
Pages ==
    {doc \in Documents :
        \A n \in NODES : /\ doc[n].parent = BODY
                         /\ doc[n].tagName = "div"
                         /\ doc[n].testid = ""
                         /\ doc[n].className = ""}

InjectionNext ==
    \/ \E doc \in Pages : Navigate(doc)
    \/ \E ok \in BOOLEAN : OnPageLoad(ok)
    \/ \E kind \in EVENT_KINDS, target \in TARGETS, key \in KEYS, checked \in BOOLEAN :
           OnDomEvent(kind, target, key, checked)

InjectionSpec == Init /\ [][InjectionNext]_vars

\* ------------------------------------------------------------ specification
Next ==
    \/ \E type \in MESSAGE_TYPES : OnConsoleMessage(type)
    \/ OnPageError
    \/ \E url \in URLS, rtype \in RESOURCE_TYPES : OnRequest(url, rtype)
    \/ \E r \in wire : OnResponse(r)
    \/ \E n \in capturing, outcome \in {"body", "[Error capturing body]"} :
           CaptureResponseBody(n, outcome)
    \/ \E r \in wire : OnRequestFailed(r)
    \/ \E r \in wire : OnRequestFinished(r)
    \/ StartRecording
    \/ \E failing \in 0..Len(EXPORTERS) : StopRecording(failing)
    \/ \E s \in stops, failing \in 0..Len(EXPORTERS) : StopExport(s, failing)
    \/ \E s \in stops : StopComplete(s)
    \/ \E data \in Payloads : OnAction(data)
    \/ \E t \in actions_inflight, ok \in BOOLEAN : OnActionResume(t, ok)
    \/ \E ok \in BOOLEAN : OnPageLoad(ok)

Spec == Init /\ [][Next]_vars

\* ------------------------------------------------------------------ claims
Range(q) == {q[i] : i \in DOMAIN q}
Count(x, q) == Cardinality({i \in DOMAIN q : q[i] = x})

RECURSIVE StepsNetwork(_)
\* All steps' network_requests, in step order.
StepsNetwork(q) ==
    IF q = <<>> THEN <<>> ELSE StepsNetwork(SubSeq(q, 1, Len(q) - 1)) \o q[Len(q)].network_requests

RECURSIVE StepsConsole(_)
\* All steps' console_logs, in step order.
StepsConsole(q) ==
    IF q = <<>> THEN <<>> ELSE StepsConsole(SubSeq(q, 1, Len(q) - 1)) \o q[Len(q)].console_logs

SameBag(a, b) == \A x \in Range(a) \cup Range(b) : Count(x, a) = Count(x, b)

\* C1: the numbers of the steps in Recorder.steps, in list order, are exactly
\* 1, 2, ..., N, for any sequence of on_action calls, overlapping ones included.
C1_ContiguousNumbers ==
    \A i \in 1..Len(steps) : steps[i].number = i

\* C2: steps are appended in the order in which their on_action calls were
\* accepted, whatever the order in which the screenshots finish.
C2_AcceptanceOrder ==
    \A i, j \in 1..Len(steps) : i < j => steps[i].action < steps[j].action

\* C3: the session network log equals, as a multiset, all steps' network
\* events plus the open window, and the session console log likewise.
C3_WindowingComplete ==
    /\ SameBag(network_requests, StepsNetwork(steps) \o step_network_requests)
    /\ SameBag(console_logs, StepsConsole(steps) \o step_console_logs)

\* C4: no network or console event is in the lists of two different steps, nor
\* in a step and in the open-window buffer at the same time (nor twice in one).
C4_NoEventTwice ==
    /\ \A x \in Range(StepsNetwork(steps) \o step_network_requests) :
           Count(x, StepsNetwork(steps) \o step_network_requests) = 1
    /\ \A x \in Range(StepsConsole(steps) \o step_console_logs) :
           Count(x, StepsConsole(steps) \o step_console_logs) = 1

\* A step that drained an event while a later event sits in the open window.
C4_Witness ==
    /\ \E i \in 1..Len(steps) :
           steps[i].network_requests # <<>> \/ steps[i].console_logs # <<>>
    /\ step_network_requests # <<>> \/ step_console_logs # <<>>

\* Where the NetworkEvent of request id is.
InLog(id) == \E i \in DOMAIN network_requests : network_requests[i].id = id
InWindow(id) == \E i \in DOMAIN step_network_requests : step_network_requests[i].id = id
InSteps(id) == \E i \in DOMAIN steps : \E k \in DOMAIN steps[i].network_requests :
                   steps[i].network_requests[k].id = id
Capturing(id) == \E n \in capturing : n.id = id
\* Request r's own NetworkEvent is the pending entry of its URL.
Registered(r) == r.url \in DOMAIN pending_requests /\ pending_requests[r.url].id = r.id

\* The body fetch of every response eventually settles or raises.
BodyFetchSettles ==
    \A id \in 1..MaxInputs :
        WF_vars(\E n \in capturing, outcome \in {"body", "[Error capturing body]"} :
                    n.id = id /\ CaptureResponseBody(n, outcome))

\* The recorder with the network handlers, the session control and the step
\* assembler only: no console messages or page errors, and exporters that do
\* not raise.
NetNext ==
    \/ \E url \in URLS, rtype \in RESOURCE_TYPES : OnRequest(url, rtype)
    \/ \E r \in wire : OnResponse(r)
    \/ \E n \in capturing, outcome \in {"body", "[Error capturing body]"} :
           CaptureResponseBody(n, outcome)
    \/ \E r \in wire : OnRequestFailed(r)
    \/ \E r \in wire : OnRequestFinished(r)
    \/ StartRecording
    \/ StopRecording(0)
    \/ \E s \in stops : StopExport(s, 0)
    \/ \E s \in stops : StopComplete(s)
    \/ \E data \in Payloads : OnAction(data)
    \/ \E t \in actions_inflight, ok \in BOOLEAN : OnActionResume(t, ok)

NetSpec == Init /\ [][NetNext]_vars /\ BodyFetchSettles

\* The response of r arrives in this step, or r fails without a response.
Arrives(r) ==
    /\ r \in wire
    /\ ~r.responded
    /\ r \notin wire'

\* C5 (as claimed): when the response or failure of a request arrives whose
\* NetworkEvent is registered as pending, before or after the stop signal, the
\* event lands in the session log and the open window, or is handed to the body
\* fetch which lands it.
C5_PendingAlwaysLands ==
    [][\A r \in wire :
           (Arrives(r) /\ Registered(r)) =>
               (Capturing(r.id)' \/ (InLog(r.id)' /\ InWindow(r.id)'))]_vars

\* C5 (amended): a pending NetworkEvent whose response or failure arrives while
\* the session is recording and while it is still the pending entry of its URL
\* lands: it is appended to the session log and to the open window, at once, or
\* for xhr/fetch when the body fetch settles, also after the stop signal; it
\* was in no log, window or step before.  Every body fetch does settle: the
\* page issues finitely many requests, and in the end none is left pending.
C5_ArrivedWhileRecordingLands ==
    /\ [][\A r \in wire :
              (Arrives(r) /\ is_recording /\ Registered(r)) =>
                  /\ ~InLog(r.id) /\ ~InWindow(r.id) /\ ~InSteps(r.id)
                  /\ Capturing(r.id)' \/ (InLog(r.id)' /\ InWindow(r.id)')]_vars
    /\ [][\A n \in capturing :
              n \notin capturing' =>
                  /\ ~InLog(n.id) /\ ~InWindow(n.id) /\ ~InSteps(n.id)
                  /\ InLog(n.id)' /\ InWindow(n.id)']_vars
    /\ <>[](capturing = {})

\* A body fetch that settled after the stop signal and landed in the tail.
C5_Witness ==
    /\ ~is_recording
    /\ end_time # 0
    /\ \E i \in DOMAIN step_network_requests :
           /\ step_network_requests[i].response_body # "None"
           /\ InLog(step_network_requests[i].id)

\* C6: an action accepted while Recording and still awaiting its screenshot
\* when the stop signal arrives is in the step sequence handed to the
\* exporters for that period.
C6_InflightStepExported ==
    \A i \in DOMAIN exports : \A t \in actions_inflight :
        t.accepted_at # exports[i].period

\* C7: from an accepted stop until the next accepted start the step sequence
\* does not change.
C7_StepsFrozenAfterStop ==
    [][(~is_recording /\ ~is_recording') => steps' = steps]_vars

\* C8: once stop_recording is past its export, a period that was stopped with
\* at least one step has been handed to the exporters exactly once, with
\* exactly its steps and their count, also when a start signal arrived
\* meanwhile.
C8_ExportedOnce ==
    \A s \in stops :
        (s.pc = "saved" /\ s.steps_at_stop # <<>>) =>
            /\ Cardinality({i \in DOMAIN exports : exports[i].stop = s.id}) = 1
            /\ \A i \in DOMAIN exports :
                   exports[i].stop = s.id =>
                       /\ exports[i].testcase.steps = s.steps_at_stop
                       /\ exports[i].testcase.total_steps = Len(s.steps_at_stop)

\* The lifecycle state: Exporting while a stop_recording coroutine is running.
SessionState ==
    IF is_recording THEN "Recording"
    ELSE IF stops # {} THEN "Exporting" ELSE "Idle"

\* C9: the session starts Idle with no steps and only moves Idle -> Recording,
\* Recording -> Exporting, Exporting -> Idle (without a page stop_recording
\* has no suspension point and Recording -> Idle is one step); a start signal
\* while Exporting does not lead back to Recording.
C9_Lifecycle ==
    /\ (clock = 0 => SessionState = "Idle" /\ steps = <<>>)
    /\ [][\/ SessionState' = SessionState
          \/ SessionState = "Idle" /\ SessionState' = "Recording"
          \/ SessionState = "Recording" /\ SessionState' = "Exporting"
          \/ SessionState = "Exporting" /\ SessionState' = "Idle"
          \/ ~has_page /\ SessionState = "Recording" /\ SessionState' = "Idle"]_vars

\* C10: right after an accepted start signal the steps, the session logs, the
\* open-window buffers and the pending-request map are all empty.
C10_StartClearsAll ==
    [][(~is_recording /\ is_recording') =>
           /\ steps' = <<>>
           /\ console_logs' = <<>>
           /\ network_requests' = <<>>
           /\ page_errors' = <<>>
           /\ step_console_logs' = <<>>
           /\ step_network_requests' = <<>>
           /\ DOMAIN pending_requests' = {}]_vars

HandlerInvoked ==
    \/ calls' # calls
    \/ next_log' # next_log
    \/ next_err' # next_err
    \/ wire' # wire

\* C12: while the session is not recording (Idle or Exporting) an invocation
\* of on_action or of the console, page error, request, response or request
\* failure handler changes neither the steps, the session logs, the open-window
\* buffers nor the pending-request map, and starts no screenshot or body fetch.
C12_HandlersNoOpWhenNotRecording ==
    [][(~is_recording /\ HandlerInvoked) =>
           UNCHANGED <<steps, console_logs, network_requests, page_errors,
                       step_console_logs, step_network_requests, pending_requests,
                       actions_inflight, capturing>>]_vars

\* Before any start signal an action, a console message and a page error have
\* arrived and a request has got its response.
C12_Witness ==
    /\ clock = 0
    /\ calls > 0 /\ next_log > 0 /\ next_err > 0
    /\ \E r \in wire : r.responded

\* A suspended stop_recording is resumed: the page answers update_panel_ui
\* (or the call fails and the failure is suppressed) and sleep(2) returns.
StopResumes ==
    /\ WF_vars(\E s \in stops, failing \in 0..Len(EXPORTERS) : StopExport(s, failing))
    /\ WF_vars(\E s \in stops : StopComplete(s))

LiveSpec == Init /\ [][Next]_vars /\ StopResumes

\* C13: after an accepted stop signal the completion signal is eventually set,
\* whether the exporters succeed or one of them raises.
C13_StopReachesCompletion ==
    [](end_time # 0 => <>recording_complete)

\* C14: whenever the exporters are invoked, all of them are: an exporter that
\* raises does not keep the ones after it from running.
C14_AllExportersInvoked ==
    \A i \in DOMAIN exports : exports[i].invoked = EXPORTERS

\* The element descriptor of the payload lacks a required field.
MissingRequiredField(data) ==
    \/ data.selector = "ABSENT"
    \/ data.tagName = "ABSENT"
    \/ data.boundingBox = "ABSENT"

\* C15: an action whose payload lacks selector, tagName or boundingBox is
\* dropped: on_action appends no step, drains no buffer and starts no
\* screenshot, so the next action gets the number it would have got anyway.
C15_MalformedDropped ==
    [][\A data \in Payloads :
           (MissingRequiredField(data) /\ OnAction(data)) =>
               UNCHANGED <<steps, step_console_logs, step_network_requests,
                           actions_inflight>>]_vars

\* C16: a NetworkEvent lands in the window that is open when it lands.  In
\* the step in which it is appended to the session log it is appended to the
\* open-window buffer and to no step, and the lists of the steps finalized by
\* then never change afterwards; so an event that lands after step k was
\* finalized is in a later step or in the tail, never in step k.
C16_LandsInOpenWindow ==
    /\ [][\A id \in 1..MaxInputs :
              (~InLog(id) /\ InLog(id)') =>
                  (InWindow(id)' /\ ~InSteps(id)' /\ steps' = steps)]_vars
    /\ [][\A i \in DOMAIN steps : \A j \in DOMAIN steps' :
              steps'[j].action = steps[i].action =>
                  steps'[j].network_requests = steps[i].network_requests]_vars

\* A step holds the event of a request, and the event of a request issued
\* before that one is in the open window: it started before the step was
\* finalized and landed after.
C16_Witness ==
    \E i \in DOMAIN steps : \E a \in DOMAIN steps[i].network_requests :
        \E b \in DOMAIN step_network_requests :
            step_network_requests[b].id < steps[i].network_requests[a].id

Last(q) == q[Len(q)]

\* C17: when a body fetch settles, by a body or by an error, its NetworkEvent
\* is appended, with the outcome as its body, to the session network log and
\* to the open-window buffer, whether or not the session is still recording:
\* a fetch that was pending when the stop was accepted is not dropped.
C17_PendingBodyFetchHonoured ==
    [][\A n \in capturing :
           n \notin capturing' =>
               /\ Len(network_requests') = Len(network_requests) + 1
               /\ Len(step_network_requests') = Len(step_network_requests) + 1
               /\ Last(network_requests') = Last(step_network_requests')
               /\ Last(network_requests').id = n.id
               /\ Last(network_requests').response_body
                      \in {"body", "[Error capturing body]"}]_vars

\* The session is stopped and its export was made without an event that is
\* now in the session log and in the tail: its body fetch settled after the
\* stop.
C17_Witness ==
    /\ ~is_recording
    /\ \E i \in DOMAIN exports :
           /\ exports[i].testcase.created_at = start_time
           /\ \E k \in DOMAIN network_requests :
                  /\ network_requests[k].response_body # "None"
                  /\ network_requests[k] \in Range(step_network_requests)
                  /\ network_requests[k] \notin Range(exports[i].testcase.network_requests)

\* C18: debouncing is per field.  Once no timer is pending, every field that
\* was edited has had an input event forwarded that carries its final value:
\* editing another field within the 500 ms does not cancel a field's timer.
C18_PerFieldDebounce ==
    inputDebounceTimer = "None" =>
        \A el \in FIELDS :
            field_value[el] # <<>> =>
                \E i \in DOMAIN forwarded :
                    /\ forwarded[i].selector = el
                    /\ forwarded[i].value = field_value[el]

\* C19: a burst of input events on a field, each before the timer of the
\* previous one expired, followed by 500 ms without input, forwards exactly
\* one input event, and its value is the field's value at the last keystroke.
C19_OneEventWithFinalValue ==
    [][forwarded' # forwarded =>
           /\ inputDebounceTimer # "None" /\ inputDebounceTimer' = "None"
           /\ Len(forwarded') = Len(forwarded) + 1
           /\ Last(forwarded').eventType = "input"
           /\ Last(forwarded').selector = inputDebounceTimer
           /\ Last(forwarded').value = field_value[inputDebounceTimer]]_vars

\* C20: a stop accepted with an empty step sequence invokes no exporter, and
\* its stop_recording goes on to signal completion.
C20_EmptyStopSkipsExport ==
    /\ [][(is_recording /\ ~is_recording' /\ steps = <<>>) => exports' = exports]_vars
    /\ [][\A s \in stops :
              (s.pc = "saving" /\ s.steps_at_stop = <<>> /\ s \notin stops') =>
                  /\ exports' = exports
                  /\ [s EXCEPT !.pc = "saved"] \in stops']_vars
    /\ []((\E s \in stops : s.steps_at_stop = <<>>) => <>recording_complete)

\* C21: when take_screenshot raises for an accepted action, on_action still
\* appends a step: it carries the next sequence number, no screenshot path and
\* the contents of the open-window buffers, which are empty afterwards, and
\* is_recording is not changed.
C21_ScreenshotFailureYieldsStep ==
    [][\A t \in actions_inflight :
           OnActionResume(t, FALSE) =>
               /\ Len(steps') = Len(steps) + 1
               /\ Last(steps').number = Len(steps) + 1
               /\ Last(steps').action = t.action
               /\ Last(steps').screenshot_path = <<>>
               /\ Last(steps').network_requests = step_network_requests
               /\ Last(steps').console_logs = step_console_logs
               /\ step_network_requests' = <<>> /\ step_console_logs' = <<>>
               /\ is_recording' = is_recording]_vars

\* The payload is one that on_action makes a step of while recording: its
\* event type is known, its element is valid, and neither the description nor
\* Step(...) raises on its value.
WellFormed(data) ==
    /\ ActionMap(Get(data.eventType, "")) # "None"
    /\ ElementInfoValid(parse_element_info(data))
    /\ ~ShortDescriptionRaises(ActionMap(Get(data.eventType, "")), data)
    /\ Get(data.value, "NULL") # "NUMBER"

\* C22: is_recording goes from TRUE to FALSE only in an accepted stop signal
\* (which reads the clock for end_time), and as long as it is TRUE every
\* well-formed action is accepted, whatever failed before on the capture path
\* (screenshot, malformed payload, orphaned response, body fetch, re-injection).
C22_OnlyStopEndsRecording ==
    /\ [][(is_recording /\ ~is_recording') =>
              (clock' = clock + 1 /\ end_time' = clock')]_vars
    /\ [][\A data \in Payloads :
              (is_recording /\ WellFormed(data) /\ OnAction(data)) =>
                  (actions_inflight' # actions_inflight \/ Len(steps') = Len(steps) + 1)]_vars

\* The first action's screenshot failed and a body fetch failed; the session
\* is still recording and an action accepted after that is step 2.
C22_Witness ==
    /\ has_page /\ is_recording
    /\ Len(steps) = 2
    /\ steps[1].screenshot_path = <<>>
    /\ steps[2].number = 2
    /\ \E i \in DOMAIN network_requests :
           network_requests[i].response_body = "[Error capturing body]"

\* The response of r is handled in this step, or r fails or finishes.
Resolves(r) ==
    /\ r \in wire
    /\ \/ r \notin wire'
       \/ ~r.responded /\ [r EXCEPT !.responded = TRUE] \in wire'

\* C23: a response or request failure whose URL has no entry in the
\* pending-request map is dropped: no NetworkEvent is recorded or scheduled,
\* and steps, session logs, open-window buffers and the pending map stay as
\* they are.
C23_OrphanDropped ==
    [][\A r \in wire :
           (Resolves(r) /\ r.url \notin DOMAIN pending_requests) =>
               UNCHANGED <<steps, console_logs, network_requests, page_errors,
                           step_console_logs, step_network_requests,
                           pending_requests, capturing, actions_inflight>>]_vars

\* Recording was never stopped and request 1 is in the log, so requests 2 and
\* 3, to one URL, were both issued while recording and both got their response
\* while recording; the event of 3 was recorded and that of 2 was not, so one
\* of the two responses found no pending entry.
C23_Witness ==
    /\ is_recording /\ clock = 1
    /\ InLog(1)
    /\ \E r2, r3 \in wire :
           /\ r2.id = 2 /\ r3.id = 3 /\ r2.url = r3.url
           /\ r2.responded /\ r3.responded
           /\ ~InLog(2) /\ ~Capturing(2)
           /\ InLog(3)

\* All NetworkEvents recorded so far: session log, open window and steps.
RecordedEvents ==
    Range(network_requests) \cup Range(step_network_requests)
        \cup Range(StepsNetwork(steps))

\* C24: no recorded NetworkEvent has both a status and an error, whatever the
\* interleaving of requests, responses, failures and body fetches.
C24_StatusXorError ==
    \A e \in RecordedEvents : ~(e.status # 0 /\ e.error # "None")

\* Two requests to one URL: one event with a status, one with an error.
C24_Witness ==
    \E e1, e2 \in RecordedEvents :
        /\ e1.url = e2.url
        /\ e1.status # 0 /\ e1.error = "None"
        /\ e2.status = 0 /\ e2.error # "None"

\* C25: the CSS selector returned for a node, resolved against the same
\* document, matches that node and no other.
C25_SelectorResolvesToNode ==
    \A i \in 1..Len(lookups) :
        querySelectorAll(document, lookups[i].selector) = {lookups[i].node}

\* C25, its part on uniqueness: no selector that was returned matches two
\* nodes of the document.
C25_SelectorMatchesOneNode ==
    \A i \in 1..Len(lookups) :
        Cardinality(querySelectorAll(document, lookups[i].selector)) <= 1

Tracked(id) == InLog(id) \/ Capturing(id)

\* C27: the pending map is keyed by URL, so a request made while recording
\* takes the entry of its URL whether or not one is there; an event enters
\* the log (or the body fetch) only as the entry its URL has at that step,
\* and the entry is removed with it, so a replaced record is never recorded
\* and the later response or failure for the URL records nothing.
C27_SecondRequestReplacesFirst ==
    /\ [](/\ \A u \in DOMAIN pending_requests :
                /\ pending_requests[u].url = u
                /\ ~Tracked(pending_requests[u].id)
          /\ \A i, j \in DOMAIN network_requests :
                network_requests[i].id = network_requests[j].id => i = j)
    /\ [][/\ \A r \in wire' :
                (/\ next_req' = next_req + 1
                 /\ r.id = next_req'
                 /\ is_recording
                 /\ r.url # "data:image/png")
                    => /\ r.url \in DOMAIN pending_requests'
                       /\ pending_requests'[r.url].id = r.id
                       /\ ~Tracked(r.id)'
                       /\ network_requests' = network_requests
                       /\ capturing' = capturing
          /\ \A id \in 1..MaxInputs :
                (Tracked(id)' /\ ~Tracked(id))
                    => \E u \in DOMAIN pending_requests :
                           /\ pending_requests[u].id = id
                           /\ u \notin DOMAIN pending_requests'
                           /\ \A k \in 1..MaxInputs :
                                  (Tracked(k)' /\ ~Tracked(k)) => k = id]_vars

\* One session; request 1 was recorded, then requests 2 and 3 went to the
\* same URL, both were answered, and the one event recorded is request 3's.
C27_Witness ==
    /\ is_recording /\ clock = 1
    /\ InLog(1) /\ InLog(3)
    /\ ~Tracked(2) /\ ~InWindow(2) /\ ~InSteps(2)
    /\ \E r2, r3 \in wire :
           /\ r2.id = 2 /\ r3.id = 3
           /\ r2.url = r3.url
           /\ r2.responded /\ r3.responded
           /\ r2.url \notin DOMAIN pending_requests

IsApi(e) == e.resource_type \in {"xhr", "fetch"}

\* C28: an xhr or fetch event whose response was matched awaits its body in
\* neither the log, the open window nor a step; when the fetch settles it is
\* appended to the log and to the window, once; the event of any other
\* resource type is appended to both in the step that handles its response.
C28_AppendedAfterBodySettles ==
    /\ [](/\ \A n \in capturing :
                /\ IsApi(n) /\ n.status # 0
                /\ ~InLog(n.id) /\ ~InWindow(n.id) /\ ~InSteps(n.id)
          /\ \A id \in 1..MaxInputs :
                /\ Cardinality({i \in DOMAIN network_requests :
                                    network_requests[i].id = id}) <= 1
                /\ Cardinality({i \in DOMAIN step_network_requests :
                                    step_network_requests[i].id = id}) <= 1)
    /\ [][/\ \A n \in capturing :
                n \notin capturing' =>
                    /\ Len(network_requests') = Len(network_requests) + 1
                    /\ Last(network_requests').id = n.id
                    /\ Last(network_requests').response_body # "None"
                    /\ step_network_requests' =
                           Append(step_network_requests, Last(network_requests'))
          /\ \A u \in DOMAIN pending_requests :
                u \notin DOMAIN pending_requests' =>
                    LET e == pending_requests[u] IN
                    IF IsApi(e) /\ Len(network_requests') = Len(network_requests)
                    THEN /\ [e EXCEPT !.status = 200] \in capturing'
                         /\ network_requests' = network_requests
                         /\ step_network_requests' = step_network_requests
                    ELSE /\ Len(network_requests') = Len(network_requests) + 1
                         /\ Last(network_requests').id = e.id
                         /\ IsApi(e) => Last(network_requests').error # "None"
                         /\ step_network_requests' =
                                Append(step_network_requests, Last(network_requests'))
                         /\ capturing' = capturing]_vars

\* The log and the window hold an xhr or fetch event with its body outcome
\* and an answered event of another type, and a body fetch is pending.
C28_Witness ==
    /\ capturing # {}
    /\ \E i, j \in DOMAIN network_requests :
           /\ IsApi(network_requests[i])
           /\ network_requests[i].response_body # "None"
           /\ InWindow(network_requests[i].id)
           /\ ~IsApi(network_requests[j])
           /\ network_requests[j].status = 200
           /\ InWindow(network_requests[j].id)

\* C29: in the step in which on_action appends a step, the step's console
\* and network lists are the open-window buffers as they are at that step,
\* in order, and both buffers are empty afterwards.
C29_StepTakesOpenWindow ==
    [][steps' # steps /\ steps' # <<>> =>
           /\ steps' = Append(steps, Last(steps'))
           /\ Last(steps').console_logs = step_console_logs
           /\ Last(steps').network_requests = step_network_requests
           /\ step_console_logs' = <<>>
           /\ step_network_requests' = <<>>]_vars

\* A step was accepted before the step ahead of it was finalized, so the
\* window was emptied while its screenshot was awaited; it holds a console
\* message or a network event all the same: it landed during the await.
C29_Witness ==
    \E i \in 2..Len(steps) :
        /\ steps[i].number < i
        /\ \/ steps[i].console_logs # <<>>
           \/ steps[i].network_requests # <<>>

\* C30: in the step that sets _recording_complete no accepted stop of a
\* session with steps still has its export ahead of it (with no steps the
\* export is skipped, whenever it runs).
C30_CompletionAfterExport ==
    [][(~recording_complete /\ recording_complete') =>
           \A s \in stops' : s.pc = "saving" => steps' = <<>>]_vars

\* C31: a step is appended only for an action accepted in the current
\* recording period: when an in-flight action resumes and appends its step,
\* the start_time is still the one under which the action was accepted.
C31_StepsOfCurrentPeriod ==
    [][\A t \in actions_inflight :
           (t \notin actions_inflight' /\ steps' # steps)
               => t.accepted_at = start_time]_vars

\* C32: whenever a step of the program empties a non-empty open-window
\* buffer, it appends a step that holds exactly the removed events.
C32_DrainIsAllOrNothing ==
    [][(\/ (step_console_logs # <<>> /\ step_console_logs' = <<>>)
        \/ (step_network_requests # <<>> /\ step_network_requests' = <<>>))
           => /\ steps' # <<>>
              /\ steps' = Append(steps, Last(steps'))
              /\ Last(steps').console_logs = step_console_logs
              /\ Last(steps').network_requests = step_network_requests]_vars

\* C33: no two steps of the sequence reference the same screenshot file.
C33_ScreenshotFilesDistinct ==
    \A i, j \in DOMAIN steps :
        (i # j /\ steps[i].screenshot_path # <<>>)
            => steps[i].screenshot_path # steps[j].screenshot_path

\* C34: an input whose timer was set before the latest accepted stop (the
\* timer was pending when the stop was accepted) is not accepted as an action
\* when the timer fires: no step is begun or appended for it.
C34_PendingInputDiscardedAfterStop ==
    [][(/\ inputDebounceTimer # "None"
        /\ inputDebounceTimer' = "None"
        /\ timer_set_at < end_time)
           => /\ actions_inflight' = actions_inflight
              /\ steps' = steps]_vars

\* C35: however often the observer script is evaluated, a document carries
\* at most one set of listeners, so one dispatched event is forwarded at most
\* once; the first evaluation in a new document installs the listeners.
C35_ListenersInstalledOnce ==
    /\ [](listeners <= 1 /\ (evaluations > 0 => listeners = 1 /\ events_injected))
    /\ [][Len(forwarded') <= Len(forwarded) + 1]_vars
    /\ [][evaluations' # evaluations => listeners' = 1]_vars

\* In a document navigated to, the script was evaluated twice (init script
\* and page-load handler), one listener set is installed, and the events
\* dispatched so far were forwarded once each.
C35_Witness ==
    /\ document # EmptyDict
    /\ evaluations = 2
    /\ listeners = 1
    /\ keys = 2
    /\ Len(forwarded) = 2
    /\ \A i \in DOMAIN forwarded : forwarded[i].selector = "#submit"

\* C36: a start received while recording changes nothing: the steps, the
\* session logs, the open-window buffers, the pending map and the start time
\* stay as they are.  Hence, from one recording state to the next, the start
\* time is kept and neither the steps nor a session log lose an entry.
C36_StartWhileRecordingNoOp ==
    /\ [][(is_recording /\ StartRecording) =>
              UNCHANGED <<steps, console_logs, network_requests, page_errors,
                          step_console_logs, step_network_requests,
                          pending_requests, start_time>>]_vars
    /\ [][(is_recording /\ is_recording') =>
              /\ start_time' = start_time
              /\ Len(steps') >= Len(steps)
              /\ Len(console_logs') >= Len(console_logs)
              /\ Len(network_requests') >= Len(network_requests)
              /\ Len(page_errors') >= Len(page_errors)]_vars

\* A first recording period that holds a step, a console message and a
\* pending request, which a start would have to leave alone.
C36_Witness ==
    /\ is_recording /\ start_time = 1 /\ clock = 1
    /\ steps # <<>>
    /\ console_logs # <<>>
    /\ DOMAIN pending_requests # {}

\* The selector the rules of C37 prescribe for a node below the root, first
\* applicable rule first.
RECURSIVE PrescribedSelector(_, _)
PrescribedSelector(doc, el) ==
    CASE el = BODY -> <<[kind |-> "tag", tagName |-> "body"]>>
      [] el # BODY /\ doc[el].id # "" ->
             <<[kind |-> "id", value |-> doc[el].id]>>
      [] el # BODY /\ doc[el].id = "" /\ doc[el].testid # "" ->
             <<[kind |-> "testid", value |-> doc[el].testid]>>
      [] OTHER ->
             LET same == {m \in DOMAIN doc : /\ doc[m].tagName = doc[el].tagName
                                             /\ doc[m].className = doc[el].className}
                 twins == {m \in DOMAIN doc : /\ doc[m].parent = doc[el].parent
                                              /\ doc[m].tagName = doc[el].tagName}
             IN  IF doc[el].className # "" /\ same = {el}
                 THEN <<[kind |-> "class", tagName |-> doc[el].tagName,
                         value |-> doc[el].className]>>
                 ELSE PrescribedSelector(doc, doc[el].parent)
                          \o <<[kind |-> "child", tagName |-> doc[el].tagName,
                                nth |-> IF twins = {el} THEN 0
                                        ELSE Cardinality({m \in twins : m <= el})]>>

\* C37: the selector returned for the body or a node below it is the one of
\* the first applicable rule: id, test identifier, document-wide unique
\* tag and class, else the parent's selector with "> tag" for an only child of
\* its tag and "> tag:nth-of-type(n)" otherwise; the body is "body".
C37_RuleOrder ==
    \A i \in 1..Len(lookups) :
        lookups[i].node # HTML =>
            lookups[i].selector = PrescribedSelector(document, lookups[i].node)

\* Both an nth-of-type path and a selector by a lower rule under a parent
\* addressed by a higher one were returned for nodes that have a class.
C37_Witness ==
    /\ Len(lookups) = 2
    /\ DOMAIN document = NODES
    /\ \A i \in 1..2 : lookups[i].node \in NODES
    /\ \E n \in NODES :
           /\ document[n].id # "" /\ document[n].testid # ""
           /\ document[n].className # ""
    /\ \E i \in 1..2 :
           /\ Len(lookups[i].selector) = 2
           /\ lookups[i].selector[2].nth # 0
           /\ document[lookups[i].node].className # ""
    /\ \E i \in 1..2 : lookups[i].selector[1].kind = "id"

\* C38: no event whose target is the control panel or lies inside it is
\* forwarded to on_action, whatever its kind; and a step that dispatches an
\* event on such a target forwards nothing.
C38_PanelEventsNotForwarded ==
    /\ [](\A i \in DOMAIN forwarded :
              /\ forwarded[i].selector # PANEL
              /\ ParentOf(forwarded[i].selector) # PANEL)
    /\ [][panel_events' # panel_events => forwarded' = forwarded]_vars

\* A click on the Stop button was dispatched and nothing was forwarded for
\* it, while the click on a button of the page was forwarded.
C38_Witness ==
    /\ panel_events = 1
    /\ keys = 2
    /\ Len(forwarded) = 1
    /\ forwarded[1].selector = "#submit"
    /\ forwarded[1].eventType = "click"

\* ------------------------------------------------------ short descriptions
\* Strings whose length or content matters are sequences of characters; None
\* is the one-element sequence below, which is no string.
NoneStr == <<"None">>
Repeat(c, n) == [i \in 1..n |-> c]
\* s[:n] of Python.
Prefix(s, n) == IF Len(s) <= n THEN s ELSE SubSeq(s, 1, n)
\* bool(s) of Python for a str or None.
Truthy(s) == s # NoneStr /\ s # <<>>
\* a or b of Python.
PyOr(a, b) == IF Truthy(a) THEN a ELSE b

Submit == <<"S", "u", "b", "m", "i", "t">>
\* element.text: getElementInfo sends at most 100 trimmed characters, "" for
\* an element without text.
TEXTS == {NoneStr, <<>>, Submit, Repeat("x", 30), Repeat("x", 30) \o <<"y">>}
\* element.attributes.get("id"): parse_element_info drops an empty id.
EL_IDS == {NoneStr, <<"s", "u", "b", "m", "i", "t">>}
PLACEHOLDERS == {NoneStr, <<"E", "m", "a", "i", "l">>}
TAG_NAMES == {<<>>, <<"b", "u", "t", "t", "o", "n">>}
ELEMENTS == [text : TEXTS, id : EL_IDS, placeholder : PLACEHOLDERS, tag_name : TAG_NAMES]
\* data["value"]: a missing key, null, or a string.
Absent == <<"absent">>
DATA_VALUES == {Absent, NoneStr, <<"a">>, Repeat("v", 20), Repeat("v", 20) \o <<"w">>}
ACTION_TYPES == {"click", "dblclick", "input", "select", "check", "uncheck", "keypress", "hover"}
Enter == <<"E", "n", "t", "e", "r">>

\* A description is the f-string that produced it with the values put into
\* it; "TypeError" stands for len(None) raising.
Description(template, identifier, value) ==
    [template |-> template, identifier |-> identifier, value |-> value]

\* As Identifier, but preferring the id to the text.
Identifier_IdFirst(element) ==
    LET text == IF Truthy(element.text) THEN Prefix(element.text, 30) ELSE NoneStr
    IN  PyOr(element.id, PyOr(text, PyOr(element.placeholder, element.tag_name)))

\* identifier of _generate_short_description.
Identifier(element) ==
    LET tag == element.tag_name
        text == IF Truthy(element.text) THEN Prefix(element.text, 30) ELSE NoneStr
        el_id == element.id
        placeholder == element.placeholder
    IN  PyOr(text, PyOr(el_id, PyOr(placeholder, tag)))

\* _generate_short_description(action_type, element, data), value being
\* data["value"] (data["key"] is Enter for a keypress).
generate_short_description(action_type, element, value) ==
    LET identifier == Identifier(element)
        got == IF value = Absent THEN <<>> ELSE value
    IN  CASE action_type = "click" -> Description("Click on '{identifier}'", identifier, <<>>)
          [] action_type = "dblclick" ->
                Description("Double-click on '{identifier}'", identifier, <<>>)
          [] action_type = "input" ->
                IF got = NoneStr
                THEN Description("TypeError", <<>>, <<>>)
                ELSE IF Len(got) > 20
                     THEN Description("Type '{value[:20]}...' in {identifier}",
                                      identifier, Prefix(got, 20))
                     ELSE Description("Type '{value}' in {identifier}", identifier, got)
          [] action_type = "select" ->
                Description("Select '{selected}' in {identifier}", identifier, got)
          [] action_type = "check" -> Description("Check {identifier}", identifier, <<>>)
          [] action_type = "uncheck" -> Description("Uncheck {identifier}", identifier, <<>>)
          [] action_type = "keypress" -> Description("Press {key}", <<>>, Enter)
          [] OTHER -> Description("{action_type} on {identifier}", identifier, <<>>)

\* on_action asks for the short description of a step.
GenerateShortDescription(action_type, element, value) ==
    /\ Len(described) < MaxDescriptions
    /\ described' = Append(described,
                           [action_type |-> action_type, element |-> element, value |-> value,
                            description |->
                                generate_short_description(action_type, element, value)])
    /\ UNCHANGED <<field_value, inputDebounceTimer, lastInputValue, callbacks,
                   forwarded, keys, panel_events, timer_set_at, document, lookups,
                   injection_vars, stored, recorder_vars>>

DescriptionNext ==
    /\ Len(described) < MaxDescriptions
    /\ \E action_type \in ACTION_TYPES, element \in ELEMENTS, value \in DATA_VALUES :
        /\ action_type # "input" => value \in {Absent, <<"a">>}
        /\ action_type \notin {"input", "select"} => value = Absent
        /\ GenerateShortDescription(action_type, element, value)

DescriptionSpec == Init /\ [][DescriptionNext]_vars

\* The descriptions that name the element.
NamesElement(d) == d.description.template \notin {"Press {key}", "TypeError"}

\* The first non-empty of the four candidates, the first being given.
FirstNonEmpty(first, element) ==
    IF Truthy(first) THEN first
    ELSE IF Truthy(element.id) THEN element.id
    ELSE IF Truthy(element.placeholder) THEN element.placeholder
    ELSE element.tag_name

\* t occurs in s.
Contains(s, t) == \E i \in 0..(Len(s) - Len(t)) : SubSeq(s, i + 1, i + Len(t)) = t

\* C39 as stated: the identifier of a short description is the first non-empty
\* of the element's visible text, its id, its placeholder and its tag name, so
\* that a click on the button with id submit and text Submit is described with
\* Submit.
C39_IdentifierIsFirstNonEmpty ==
    \A i \in 1..Len(described) :
        LET d == described[i]
        IN  /\ NamesElement(d) =>
                d.description.identifier = FirstNonEmpty(d.element.text, d.element)
            /\ (d.action_type = "click" /\ d.element.text = Submit) =>
                Contains(d.description.identifier, Submit)

\* C39 as the code has it: the first candidate is the first 30 characters of
\* the visible text; then the id, the placeholder and the tag name follow in
\* this order, and the click on the Submit button is described with Submit.
C39_IdentifierIsFirstNonEmptyCut ==
    \A i \in 1..Len(described) :
        LET d == described[i]
            first == IF d.element.text = NoneStr THEN NoneStr ELSE Prefix(d.element.text, 30)
        IN  /\ NamesElement(d) =>
                d.description.identifier = FirstNonEmpty(first, d.element)
            /\ (d.action_type = "click" /\ d.element.text = Submit) =>
                Contains(d.description.identifier, Submit)

\* A click on an element with an id and a text of 31 characters has been
\* described with the first 30 of them.
C39_Witness ==
    \E i \in 1..Len(described) :
        /\ described[i].action_type = "click"
        /\ Len(described[i].element.text) = 31
        /\ described[i].element.id # NoneStr
        /\ described[i].description.identifier = Repeat("x", 30)

\* --------------------------------------------------------- response bodies
\* What response.body() gives: a body of so many bytes which decodes as UTF-8
\* to so many characters (chars = -1: it does not decode), or an exception
\* (bytes = -1).  A character of UTF-8 takes one to four bytes.
RawLimit == 50 * 1024
TextLimit == 10000
BYTE_COUNTS == {0, 1, TextLimit, TextLimit + 1, 4 * TextLimit, RawLimit, RawLimit + 1}
CHAR_COUNTS == {0, 1, TextLimit - 1, TextLimit, TextLimit + 1, RawLimit \div 4, RawLimit}
BODIES ==
    {[bytes |-> -1, chars |-> -1]} \cup
    {b \in [bytes : BYTE_COUNTS, chars : CHAR_COUNTS \cup {-1}] :
        b.chars # -1 => (b.chars <= b.bytes /\ b.bytes <= 4 * b.chars)}

\* A stored response_body: its form, how many leading characters of the body
\* it holds, and the number of bytes it states (0: none stated).
ResponseBody(form, content, size) == [form |-> form, content |-> content, size |-> size]

\* As response_body, but refusing a body of exactly the raw limit.
response_body_BelowLimit(body) ==
    IF body.bytes = -1
    THEN ResponseBody("[Error capturing body: {e}]", 0, 0)
    ELSE IF body.bytes < RawLimit
         THEN IF body.chars = -1
              THEN ResponseBody("[Binary data, {len(body_bytes)} bytes]", 0, body.bytes)
              ELSE IF body.chars > TextLimit
                   THEN ResponseBody("{body_text[:10000]}\n... (truncated)", TextLimit, 0)
                   ELSE ResponseBody("{body_text}", body.chars, 0)
         ELSE ResponseBody("[Large response, {len(body_bytes)} bytes]", 0, body.bytes)

\* net_request.response_body as _capture_response_body sets it.
response_body(body) ==
    IF body.bytes = -1
    THEN ResponseBody("[Error capturing body: {e}]", 0, 0)
    ELSE IF body.bytes <= RawLimit
         THEN IF body.chars = -1
              THEN ResponseBody("[Binary data, {len(body_bytes)} bytes]", 0, body.bytes)
              ELSE IF body.chars > TextLimit
                   THEN ResponseBody("{body_text[:10000]}\n... (truncated)", TextLimit, 0)
                   ELSE ResponseBody("{body_text}", body.chars, 0)
         ELSE ResponseBody("[Large response, {len(body_bytes)} bytes]", 0, body.bytes)

\* _capture_response_body up to the finally block, for one response.
StoreResponseBody(body) ==
    /\ Len(stored) < MaxBodies
    /\ stored' = Append(stored, [body |-> body, response_body |-> response_body(body)])
    /\ UNCHANGED <<field_value, inputDebounceTimer, lastInputValue, callbacks,
                   forwarded, keys, panel_events, timer_set_at, document, lookups,
                   injection_vars, described, recorder_vars>>

BodyNext == \E body \in BODIES : StoreResponseBody(body)

BodySpec == Init /\ [][BodyNext]_vars

\* The body is stored in full.
InFull(e) == e.response_body.form = "{body_text}" /\ e.response_body.content = e.body.chars
\* The stored value is a marker stating the size, with nothing of the body.
SizeMarker(e) == e.response_body.size = e.body.bytes /\ e.response_body.content = 0

\* C40 as stated: a body is stored in full only when it has at most 51200
\* bytes and decodes to at most 10000 characters; a body of more bytes or of
\* more characters is stored as a size marker holding none of its content.
C40_FullOrSizeMarker ==
    \A i \in 1..Len(stored) :
        LET e == stored[i] IN
        /\ InFull(e) => (e.body.bytes <= 51200 /\ e.body.chars <= 10000)
        /\ (e.body.bytes > 51200 \/ e.body.chars > 10000) => SizeMarker(e)

\* C40 as the code has it: a body is stored in full exactly when it has at
\* most 51200 bytes and decodes to at most 10000 characters; a body of more
\* than 51200 bytes is stored as a size marker holding none of its content; a
\* body of at most 51200 bytes which decodes to more than 10000 characters is
\* stored as its first 10000 characters followed by a truncation mark.
C40_FullOrTruncatedOrSizeMarker ==
    \A i \in 1..Len(stored) :
        LET e == stored[i] IN
        /\ InFull(e) <=> (e.body.bytes \in 0..51200 /\ e.body.chars \in 0..10000)
        /\ e.body.bytes > 51200 =>
            (SizeMarker(e) /\ e.response_body.form = "[Large response, {len(body_bytes)} bytes]")
        /\ (e.body.bytes <= 51200 /\ e.body.chars > 10000) =>
            /\ e.response_body.form = "{body_text[:10000]}\n... (truncated)"
            /\ e.response_body.content = 10000

\* A body of exactly 51200 bytes and more than 10000 characters has been
\* stored truncated, and one of 51201 bytes as a size marker.
C40_Witness ==
    /\ \E i \in 1..Len(stored) :
        /\ stored[i].body.bytes = 51200
        /\ stored[i].body.chars > 10000
        /\ stored[i].response_body.content = 10000
    /\ \E i \in 1..Len(stored) :
        /\ stored[i].body.bytes = 51201
        /\ stored[i].response_body.form = "[Large response, {len(body_bytes)} bytes]"

====
